---- MODULE Spec2Model ----
(***************************************************************************)
(* Precur: a browser time log (src/src/App.jsx).                           *)
(*                                                                         *)
(* The model holds the IndexedDB object store 'entries' with its key       *)
(* generator, the storage calls in flight (each one opens the database,    *)
(* creates its own transaction and resolves a promise), the App            *)
(* component's React state, the wall clock, and the two summary lists the  *)
(* component renders.                                                      *)
(***************************************************************************)
EXTENDS Integers, Sequences, FiniteSets, TLC

VARIABLES
    store,         \* object store 'entries': records in ascending key order
    keyGen,        \* the object store's key generator (autoIncrement)
    txs,           \* storage calls in flight, in the order they were issued
    entries,       \* App state: the cached entry list
    editingEntry,  \* App state: the entry being edited, or Null
    currentMonth,  \* App state: last observed month (0..11)
    currentYear,   \* App state: last observed year
    now,           \* wall clock, in months since January of BaseYear
    effectPending, \* the rollover effect is scheduled (a dependency changed)
    monthView,     \* rendered rows of 'Total por Mes'
    yearView,      \* rendered rows of 'Total por Año'
    submits,       \* number of form submissions so far
    dels,          \* number of 'Eliminar' clicks so far
    last           \* the step just taken: what ran, on which key, which hooks

vars == <<store, keyGen, txs, entries, editingEntry, currentMonth, currentYear,
          now, effectPending, monthView, yearView, submits, dels, last>>

----------------------------------------------------------------------------
(* Bounds of the model *)

MaxSubmits == 2
MaxDels == 2
MaxLen == 3

(* Program and platform constants *)

MonthsPerYear == 12
MinutesPerHour == 60
BaseYear == 2024
StartTime == 10

\* editingEntry holds at most one entry: <<>> is JavaScript's null.
Null == <<>>

\* What the user types into the two number inputs (hours, minutes).
FormInputs == {<<1, 45>>, <<0, -15>>}

\* The instants the wall clock shows: the start, a month later, a year later.
Instants == {StartTime, StartTime + 1, StartTime + MonthsPerYear}

----------------------------------------------------------------------------
(* Date *)

getFullYear(t) == BaseYear + (t \div MonthsPerYear)

getMonth(t) == t % MonthsPerYear

----------------------------------------------------------------------------
(* Sequences *)

Range(s) == {s[i] : i \in DOMAIN s}

RemoveAt(s, i) == SubSeq(s, 1, i - 1) \o SubSeq(s, i + 1, Len(s))

Ids(s) == {s[i].id : i \in DOMAIN s}

----------------------------------------------------------------------------
(* The object store: createObjectStore(STORE_NAME, {keyPath: 'id',         *)
(* autoIncrement: true}) and the four requests made on it                  *)

\* A key generator that stops advancing after its first key.
NextKeyStuck(k) == IF k = 0 THEN 1 ELSE k

\* The key generator hands out the next integer.
NextKey(k) == k + 1

\* add(entry): the record gets the generated key; a key already present is a
\* ConstraintError and the store is left as it was.
StoreAdd(s, e, k) ==
    IF k \in Ids(s)
    THEN s
    ELSE Append(s, [id |-> k, hours |-> e.hours, minutes |-> e.minutes,
                    createdAt |-> e.createdAt])

\* getAll(): every record, in ascending key order.
StoreGetAll(s) == s

\* A delete that takes its argument for a position in the list.
StoreDeleteAt(s, k) == IF k \in DOMAIN s THEN RemoveAt(s, k) ELSE s

\* delete(id): the record with that key goes; no such key is no error.
StoreDelete(s, k) == SelectSeq(s, LAMBDA r : r.id # k)

\* put(entry): the whole record at entry.id is replaced, or inserted at its
\* place in key order when the key is not there.
StorePut(s, e) ==
    SelectSeq(s, LAMBDA r : r.id < e.id) \o <<e>> \o
    SelectSeq(s, LAMBDA r : r.id > e.id)

----------------------------------------------------------------------------
(* Storage calls in flight.  Each call awaits initDB(), then creates its   *)
(* transaction and places its request.  Open requests on one database are  *)
(* served in the order they were made, so the transactions are created in  *)
(* the order of the calls: txs keeps that order and a call enters it as    *)
(* "created".  The browser then starts the transaction ("active") and,     *)
(* when the request has succeeded, the promise resolves and the awaiting   *)
(* handler continues.                                                      *)

Mode(op) == IF op = "getAll" THEN "readonly" ELSE "readwrite"

Call(op) == [op |-> op, phase |-> "created"]

addEntry(e) == Call("add") @@ [entry |-> e]

getEntries == Call("getAll") @@ [result |-> <<>>]

deleteEntry(k) == Call("delete") @@ [key |-> k]

updateEntry(e) == Call("put") @@ [entry |-> e]

\* Scheduling that ignores the transactions' modes and creation order.
CanStartUnordered(q, i) == q[i].phase = "created"

\* A read-only transaction starts once no read/write transaction created
\* before it is unfinished; a read/write transaction starts once no
\* transaction created before it is unfinished.
CanStart(q, i) ==
    /\ q[i].phase = "created"
    /\ IF Mode(q[i].op) = "readonly"
       THEN \A j \in 1..(i - 1) : Mode(q[j].op) # "readwrite"
       ELSE i = 1

\* loadEntries(): issue getEntries(); its continuation is setEntries.
loadEntries(q) == Append(q, getEntries)

\* handleDeleteEntry without its loadEntries().
ReloadAfterWrite(op) == op \in {"add", "put"}

\* Whether the handler that awaited `op` calls loadEntries() afterwards.
ReloadAfter(op) == op \in {"add", "put", "delete"}

----------------------------------------------------------------------------
(* Aggregation: getTotalTimeByMonth / getTotalTimeByYear                   *)

\* A month key that leaves the year out.
MonthKeyNoYear(e) == <<getMonth(e.createdAt) + 1>>

\* monthKey = `${date.getFullYear()}-${date.getMonth() + 1}`
MonthKey(e) == <<getFullYear(e.createdAt), getMonth(e.createdAt) + 1>>

\* yearKey = date.getFullYear()
YearKey(e) == getFullYear(e.createdAt)

\* entry.hours * 60 + entry.minutes
Duration(e) == e.hours * MinutesPerHour + e.minutes

\* '=' in place of '+='.
AccumulateOverwrite(old, e) == e.hours * MinutesPerHour + e.minutes

\* totals[key] += entry.hours * 60 + entry.minutes
Accumulate(old, e) == old + Duration(e)

\* One forEach step: a key not seen yet starts at 0, in insertion order.
AddTo(totals, key, e) ==
    IF \E i \in DOMAIN totals : totals[i].key = key
    THEN [i \in DOMAIN totals |->
            IF totals[i].key = key
            THEN [totals[i] EXCEPT !.total = Accumulate(@, e)]
            ELSE totals[i]]
    ELSE Append(totals, [key |-> key, total |-> Accumulate(0, e)])

\* The forEach loop over the cached entries.
GroupTotals(es, by) ==
    LET Key(e) == IF by = "month" THEN MonthKey(e) ELSE YearKey(e)
        f[n \in 0..Len(es)] ==
            IF n = 0 THEN <<>> ELSE AddTo(f[n - 1], Key(es[n]), es[n])
    IN f[Len(es)]

totalsByMonth(es) == GroupTotals(es, "month")

\* Object.keys lists integer-like keys in ascending order, so the year
\* buckets come out sorted whatever their insertion order.
IntegerKeyOrder(totals) ==
    LET n == Len(totals)
        rank(i) == Cardinality({j \in 1..n : totals[j].key < totals[i].key}) + 1
    IN [r \in 1..n |-> totals[CHOOSE i \in 1..n : rank(i) = r]]

totalsByYear(es) == IntegerKeyOrder(GroupTotals(es, "year"))

\* Math.floor(totalMinutes / 60)
MathFloorDiv(a, b) == a \div b

\* totalMinutes % 60: JavaScript's remainder takes the sign of the dividend.
JsRemainder(a, b) == IF a >= 0 THEN a % b ELSE 0 - ((0 - a) % b)

\* One <li>: {key}: {totalHours}:{minutesLeft}
Row(t) ==
    [key |-> t.key,
     totalHours |-> MathFloorDiv(t.total, MinutesPerHour),
     minutesLeft |-> JsRemainder(t.total, MinutesPerHour)]

getTotalTimeByMonth(es) ==
    LET t == totalsByMonth(es) IN [i \in DOMAIN t |-> Row(t[i])]

getTotalTimeByYear(es) ==
    LET t == totalsByYear(es) IN [i \in DOMAIN t |-> Row(t[i])]

----------------------------------------------------------------------------
(* The App component *)

\* A TimeList whose rows also carry an edit button.
TimeListControlsWithEdit == {"onEdit", "onDelete"}

\* The per-row controls TimeList renders: only the 'Eliminar' button.
TimeListControls == {"onDelete"}

\* The callbacks TimeList is handed as props.
TimeListProps == {"onEdit", "onDelete"}

Step(act, k, hooks) == [act |-> act, key |-> k, hooks |-> hooks]

\* The month compared with the last observed year.
RolloverHooksMixed(month, year, cm, cy) ==
    (IF month # cy THEN {"monthly"} ELSE {}) \cup
    (IF year # cy THEN {"annual"} ELSE {})

\* if (month !== currentMonth) resetMonthlyCount();
\* if (year !== currentYear) resetAnnualCount();
RolloverHooks(month, year, cm, cy) ==
    (IF month # cm THEN {"monthly"} ELSE {}) \cup
    (IF year # cy THEN {"annual"} ELSE {})

Init ==
    /\ store = <<>>
    /\ keyGen = 0
    /\ txs = loadEntries(<<>>)
    /\ entries = <<>>
    /\ editingEntry = Null
    /\ now = StartTime
    /\ currentMonth = getMonth(StartTime)
    /\ currentYear = getFullYear(StartTime)
    /\ effectPending = TRUE
    /\ monthView = getTotalTimeByMonth(<<>>)
    /\ yearView = getTotalTimeByYear(<<>>)
    /\ submits = 0
    /\ dels = 0
    /\ last = Step("mount", 0, {})

\* React runs a scheduled effect before it handles the next event or renders
\* again, so the handlers below wait while the rollover effect is pending.

\* TimeForm.handleSubmit, then handleAddEntry up to its await.
Submit(h, m) ==
    /\ submits < MaxSubmits
    /\ ~effectPending
    /\ LET entry == [hours |-> h, minutes |-> m, createdAt |-> now]
       IN  txs' = Append(txs,
                IF editingEntry # Null
                THEN updateEntry([id |-> editingEntry[1].id] @@ entry)
                ELSE addEntry(entry))
    /\ submits' = submits + 1
    /\ last' = Step("submit", 0, {})
    /\ UNCHANGED <<store, keyGen, entries, editingEntry, currentMonth,
                   currentYear, now, effectPending, monthView, yearView, dels>>

\* A control of the row of entry e is used: handleDeleteEntry(e.id) up to
\* its await, or handleEditEntry(e).
Click(ctl, e) ==
    /\ ~effectPending
    /\ IF ctl = "onDelete"
       THEN /\ dels < MaxDels
            /\ txs' = Append(txs, deleteEntry(e.id))
            /\ dels' = dels + 1
            /\ UNCHANGED editingEntry
       ELSE /\ editingEntry' = <<e>>
            /\ UNCHANGED <<txs, dels>>
    /\ last' = Step(ctl, e.id, {})
    /\ UNCHANGED <<store, keyGen, entries, currentMonth, currentYear, now,
                   effectPending, monthView, yearView, submits>>

\* The browser starts the transaction; a getAll reads the store.
Start(i) ==
    /\ CanStart(txs, i)
    /\ txs' = IF txs[i].op = "getAll"
              THEN [txs EXCEPT ![i].phase = "active",
                               ![i].result = StoreGetAll(store)]
              ELSE [txs EXCEPT ![i].phase = "active"]
    /\ last' = Step("start", 0, {})
    /\ UNCHANGED <<store, keyGen, entries, editingEntry, currentMonth,
                   currentYear, now, effectPending, monthView, yearView,
                   submits, dels>>

\* The request succeeds and the awaiting handler runs to its end: a write
\* takes effect and its handler calls loadEntries(); a getAll hands its
\* result to setEntries, which renders the list and the totals and schedules
\* the rollover effect (the array is a new one every time).
Finish(i) ==
    /\ txs[i].phase = "active"
    /\ ~effectPending
    /\ LET t == txs[i]
           rest == RemoveAt(txs, i)
           after == IF ReloadAfter(t.op) THEN loadEntries(rest) ELSE rest
       IN
       CASE t.op = "getAll" ->
              /\ entries' = t.result
              /\ monthView' = getTotalTimeByMonth(t.result)
              /\ yearView' = getTotalTimeByYear(t.result)
              /\ effectPending' = TRUE
              /\ txs' = rest
              /\ last' = Step("setEntries", 0, {})
              /\ UNCHANGED <<store, keyGen, editingEntry>>
         [] t.op = "add" ->
              /\ store' = StoreAdd(store, t.entry, NextKey(keyGen))
              /\ keyGen' = NextKey(keyGen)
              /\ txs' = after
              /\ last' = Step("add", NextKey(keyGen), {})
              /\ UNCHANGED <<entries, editingEntry, effectPending,
                             monthView, yearView>>
         [] t.op = "put" ->
              /\ store' = StorePut(store, t.entry)
              /\ editingEntry' = Null
              /\ txs' = after
              /\ last' = Step("put", t.entry.id, {})
              /\ UNCHANGED <<keyGen, entries, effectPending, monthView,
                             yearView>>
         [] t.op = "delete" ->
              /\ store' = StoreDelete(store, t.key)
              /\ txs' = after
              /\ last' = Step("delete", t.key, {})
              /\ UNCHANGED <<keyGen, entries, editingEntry, effectPending,
                             monthView, yearView>>
    /\ UNCHANGED <<currentMonth, currentYear, now, submits, dels>>

\* The effect with dependencies [entries, currentMonth, currentYear].
RolloverEffect ==
    /\ effectPending
    /\ LET month == getMonth(now)
           year == getFullYear(now)
           hooks == RolloverHooks(month, year, currentMonth, currentYear)
       IN  /\ currentMonth' = IF "monthly" \in hooks THEN month ELSE currentMonth
           /\ currentYear' = IF "annual" \in hooks THEN year ELSE currentYear
           /\ effectPending' = (hooks # {})
           /\ last' = Step("effect", 0, hooks)
    /\ UNCHANGED <<store, keyGen, txs, entries, editingEntry, now, monthView,
                   yearView, submits, dels>>

\* Time passes; nothing in the component is run by it.
Tick ==
    /\ \E t \in Instants :
        /\ t > now
        /\ now' = t
    /\ last' = Step("tick", 0, {})
    /\ UNCHANGED <<store, keyGen, txs, entries, editingEntry, currentMonth,
                   currentYear, effectPending, monthView, yearView, submits,
                   dels>>

NextWith(controls) ==
    \/ \E f \in FormInputs : Submit(f[1], f[2])
    \/ \E e \in Range(entries) : \E ctl \in controls : Click(ctl, e)
    \/ \E i \in DOMAIN txs : Start(i)
    \/ \E i \in DOMAIN txs : Finish(i)
    \/ RolloverEffect
    \/ Tick

\* The program as the user can drive it.
Next == NextWith(TimeListControls)

Spec == Init /\ [][Next]_vars

\* The App component with every callback it hands to TimeList in use.
NextProps == NextWith(TimeListProps)

SpecProps == Init /\ [][NextProps]_vars

----------------------------------------------------------------------------
(* The aggregation on its own: the component rendered with any cached list *)
(* of at most MaxLen entries, and re-rendered with the same entries in     *)
(* another order.                                                          *)

\* Durations as typed (the number inputs have no min or max) and creation
\* times: the instants of the clock.
AggDurations == <<<<1, 45>>, <<0, 30>>, <<1, 75>>, <<0, -15>>>>

AggTimes == Instants

\* The entries a list is made of, numbered.
AggChoices ==
    {<<d, t>> : d \in DOMAIN AggDurations, t \in AggTimes}

AggRank(c) ==
    Cardinality({x \in AggChoices :
        x[2] < c[2] \/ (x[2] = c[2] /\ x[1] < c[1])})

\* Every multiset of at most MaxLen entries, as one list; Rerender reaches
\* its other orderings.
AggLists ==
    UNION {{l \in [1..n -> AggChoices] :
                \A i \in 1..(n - 1) : AggRank(l[i]) <= AggRank(l[i + 1])} :
           n \in 0..MaxLen}

AggEntries(l) ==
    [i \in DOMAIN l |->
        [id |-> i, hours |-> AggDurations[l[i][1]][1],
         minutes |-> AggDurations[l[i][1]][2], createdAt |-> l[i][2]]]

Reorderings(es) ==
    {[i \in DOMAIN es |-> es[f[i]]] : f \in Permutations(DOMAIN es)}

InitAgg ==
    /\ \E l \in AggLists : entries = AggEntries(l)
    /\ monthView = getTotalTimeByMonth(entries)
    /\ yearView = getTotalTimeByYear(entries)
    /\ store = <<>>
    /\ keyGen = 0
    /\ txs = <<>>
    /\ editingEntry = Null
    /\ now = StartTime + MonthsPerYear
    /\ currentMonth = getMonth(now)
    /\ currentYear = getFullYear(now)
    /\ effectPending = FALSE
    /\ submits = 0
    /\ dels = 0
    /\ last = Step("render", 0, {})

Rerender ==
    /\ \E es \in Reorderings(entries) :
        /\ entries' = es
        /\ monthView' = getTotalTimeByMonth(es)
        /\ yearView' = getTotalTimeByYear(es)
    /\ last' = Step("rerender", 0, {})
    /\ UNCHANGED <<store, keyGen, txs, editingEntry, currentMonth,
                   currentYear, now, effectPending, submits, dels>>

NextAgg == Rerender

SpecAgg == InitAgg /\ [][NextAgg]_vars

----------------------------------------------------------------------------
(* Properties *)

Pending(op) == {i \in DOMAIN txs : txs[i].op = op}

Mutations == {i \in DOMAIN txs : Mode(txs[i].op) = "readwrite"}

DistinctIds(s) == \A i, j \in DOMAIN s : s[i].id = s[j].id => i = j

\* C1: whenever no storage call or reload is in flight, the cached entry
\* list holds exactly the records of the store.
C1_CacheMatchesStore ==
    txs = <<>> => /\ Range(entries) = Range(store)
                  /\ Len(entries) = Len(store)

\* Two entries were added and two deletes clicked, the second on a row of a
\* stale list (its record was already gone), and everything has settled.
C1_Witness ==
    /\ txs = <<>>
    /\ submits = 2
    /\ dels = 2
    /\ Len(store) = 1
    /\ entries = store

\* C2: from an empty store and with no delete, the store lists exactly as
\* many entries as creates have completed, with pairwise distinct ids, and
\* so does the list a reload brings back once nothing is in flight.
C2_CreatesListed ==
    dels = 0 =>
        /\ Len(StoreGetAll(store)) = submits - Cardinality(Pending("add"))
        /\ DistinctIds(StoreGetAll(store))
        /\ txs = <<>> => Len(entries) = submits /\ DistinctIds(entries)

C2_Witness ==
    /\ dels = 0
    /\ txs = <<>>
    /\ submits = 2
    /\ Len(entries) = 2
    /\ last.act = "effect"

\* C3: a delete of key k takes the record with id k out of the store and
\* leaves every other record as it was; when no record has id k the store
\* is unchanged (and the delete still completes).
C3_DeleteFrame ==
    [][last'.act = "delete" =>
        /\ last'.key \notin Ids(store')
        /\ Range(store') = {r \in Range(store) : r.id # last'.key}
        /\ Len(store') = Cardinality(Range(store'))
        /\ (last'.key \notin Ids(store) => store' = store)]_vars

\* Two records were created and two deletes have completed, the last one
\* for a key that was already gone; the other record is still there.
C3_Witness ==
    /\ last.act = "delete"
    /\ keyGen = 2
    /\ dels = 2
    /\ Pending("delete") = {}
    /\ Len(store) = 1

C9_Rollover ==
    [][/\ last'.act = "effect" =>
            /\ effectPending
            /\ ("monthly" \in last'.hooks) <=> (getMonth(now) # currentMonth)
            /\ ("annual" \in last'.hooks) <=> (getFullYear(now) # currentYear)
            /\ currentMonth' = getMonth(now)
            /\ currentYear' = getFullYear(now)
       /\ last'.act # "effect" =>
            /\ last'.hooks = {}
            /\ currentMonth' = currentMonth
            /\ currentYear' = currentYear
       /\ last'.act = "tick" => effectPending' = effectPending]_vars

\* The check has just run a year after the last observation, in the same
\* month: the annual hook alone was invoked.
C9_Witness ==
    /\ last.act = "effect"
    /\ last.hooks = {"annual"}
    /\ entries # <<>>

\* C10: the edit-in-progress marker is always null and no replace-by-key is
\* ever issued: every submission takes the create path.
C10_NeverEditing ==
    /\ editingEntry = Null
    /\ Pending("put") = {}

\* The list shows an entry and the form has just been submitted again.
C10_Witness ==
    /\ last.act = "submit"
    /\ entries # <<>>
    /\ txs[Len(txs)].op = "add"

----------------------------------------------------------------------------
(* Properties of the aggregation.  Creation times count months, so two     *)
(* entries fall in the same calendar month exactly when their createdAt    *)
(* are equal, and in the same year when they agree on createdAt divided    *)
(* by twelve.                                                              *)

RawMinutes(e) == e.hours * 60 + e.minutes

RECURSIVE SumRaw(_, _)
SumRaw(es, S) ==
    IF S = {} THEN 0
    ELSE LET i == CHOOSE x \in S : TRUE
         IN  RawMinutes(es[i]) + SumRaw(es, S \ {i})

SameMonth(es, e) == {i \in DOMAIN es : es[i].createdAt = e.createdAt}

SameYear(es, e) ==
    {i \in DOMAIN es : es[i].createdAt \div 12 = e.createdAt \div 12}

Keys(t) == {t[i].key : i \in DOMAIN t}

AsMap(t) == {<<t[i].key, t[i].total>> : i \in DOMAIN t}

\* C5: the monthly view has one bucket for each month holding an entry and
\* no other, its total the sum of hours*60 + minutes (minutes of 60 and more
\* taken as they are) over that month's entries; the annual view likewise
\* per year; with no entries both views are empty.
C5_Buckets ==
    LET bm == totalsByMonth(entries)
        by == totalsByYear(entries)
    IN  /\ Len(bm) = Cardinality({e.createdAt : e \in Range(entries)})
        /\ Len(by) = Cardinality({e.createdAt \div 12 : e \in Range(entries)})
        /\ \A e \in Range(entries) :
            /\ \E i \in DOMAIN bm :
                /\ bm[i].key = MonthKey(e)
                /\ bm[i].total = SumRaw(entries, SameMonth(entries, e))
            /\ \E i \in DOMAIN by :
                /\ by[i].key = YearKey(e)
                /\ by[i].total = SumRaw(entries, SameYear(entries, e))
        /\ Len(monthView) = Len(bm) /\ Keys(monthView) = Keys(bm)
        /\ Len(yearView) = Len(by) /\ Keys(yearView) = Keys(by)
        /\ entries = <<>> => monthView = <<>> /\ yearView = <<>>

\* Three entries, one of 1 h 75 min: two in one month and the third in the
\* same month a year later.
C5_Witness ==
    /\ Len(entries) = 3
    /\ entries[2].minutes = 75
    /\ entries[1].createdAt = entries[2].createdAt
    /\ entries[3].createdAt = entries[1].createdAt + 12
    /\ Len(monthView) = 2

\* C6: every ordering of the cached entries gives each month key and each
\* year key the same total.
C6_OrderIndependent ==
    \A es \in Reorderings(entries) :
        /\ AsMap(totalsByMonth(es)) = AsMap(totalsByMonth(entries))
        /\ AsMap(totalsByYear(es)) = AsMap(totalsByYear(entries))

\* The list was re-rendered in another order; it holds two entries of
\* different durations in one month and a third in another year.
C6_Witness ==
    /\ last.act = "rerender"
    /\ Len(entries) = 3
    /\ entries[1].createdAt = entries[3].createdAt
    /\ RawMinutes(entries[1]) # RawMinutes(entries[3])
    /\ entries[2].createdAt = entries[1].createdAt + 12

\* C7: every displayed bucket shows H:M with H = floor(T/60), M = T mod 60,
\* H*60 + M = T and 0 <= M <= 59, T being the bucket's total.
C7_DisplaySplit ==
    LET Split(rows, t) ==
            \A i \in DOMAIN rows :
                /\ rows[i].totalHours = t[i].total \div 60
                /\ rows[i].minutesLeft = t[i].total % 60
                /\ rows[i].totalHours * 60 + rows[i].minutesLeft = t[i].total
                /\ rows[i].minutesLeft \in 0..59
    IN  /\ Split(monthView, totalsByMonth(entries))
        /\ Split(yearView, totalsByYear(entries))

====
